---- MODULE Spec2Model ----
(***************************************************************************)
(* The asynchronous job pipeline (process.py, process_video) and the       *)
(* status stream (app.py, status_updates) of datastar-soy, with the Redis  *)
(* pub/sub channel between them.                                           *)
(*                                                                         *)
(* Every await of the source is a scheduling point; an action runs from    *)
(* one await to the next publish.  The Redis server is taken to be         *)
(* reachable: redis publish / subscribe / unsubscribe return normally.     *)
(* External tools (yt-dlp, ffmpeg), the k-means analysis, the TinyDB       *)
(* writes, the page write and the unlink each return with success or with  *)
(* an exception, chosen nondeterministically.                              *)
(***************************************************************************)
EXTENDS Integers, Sequences, FiniteSets, TLC

(* ------------------------------ bounds --------------------------------- *)
\* Most frame files one ffmpeg run leaves in the job folder.
MaxFrames == 2
\* Most delivered messages a status stream is behind by (schedules in which a
\* stream lags further are not explored).
MaxBacklog == 1
MaxRecords == 4
MaxPixels == 5
MaxSampled == 8

\* The jobs started (POST /process) and the status streams opened
\* (GET /status_updates) in one run of the server.
Jobs == {1, 2}
Relays == {1, 2}
\* app.py:74,109  request.cookies.get('user_id'): None, or the cookie's value.
Cookies == {"None", "u1"}
\* process.py:58  int(data.get('duration', 0)) around the limits of line 206.
Durations == {-1, 0, 60, 61}

VARIABLES
    jpc,          \* job -> where its process_video task stands
    user_id,      \* job -> the user_id argument of process_video
    folder,       \* job -> videos/<folder_id> exists                (process.py:191)
    duration,     \* job -> meta['duration_seconds'], Unknown before (process.py:203)
    media,        \* job -> state of videos/<folder_id>/video.mp4
    frame_files,  \* job -> number of frame_NN.jpg files in the folder
    db_details,   \* job -> number of records in table db_details of frames.json
    db_frames,    \* job -> frame indices of table frames, in insertion order
    index,        \* job -> frames analysed so far (loop variable, process.py:237)
    page,         \* job -> state of videos/<folder_id>/video.html
    updates,      \* job -> messages handed to publish_update, in order
    ran,          \* job -> stage invocations made, in order
    failed,       \* job -> the exception caught at process.py:268, NoFailure before
    rpc,          \* relay -> where its status_updates generator stands
    cookie,       \* relay -> request.cookies.get('user_id')
    subscribers,  \* topic -> relays whose pubsub is subscribed to "user:<topic>"
    inbox,        \* relay -> messages delivered to its pubsub, not yet listened to
    video_url,    \* relay -> local variable video_url (app.py:78)
    disconnected, \* relay -> its client has gone away (the generator is being closed)
    out,          \* relay -> SSE events yielded, in order
    tmp,          \* job -> state of videos/<folder_id>/video.html.tmp
    response,     \* job -> where GET /v/<folder_id> stands, then what it returned
    labels,       \* analyze_frame_colors: centroid index of every pixel (vq)
    centroids,    \* analyze_frame_colors: number of centroids kmeans returned
    results_local, \* analyze_frame_colors: percentage of every cluster, in centroid order
    frames,       \* build_page: number of clusters of every frame record
    frames_list   \* build_page: number of color bars of every group rendered

jobvars == <<jpc, user_id, folder, duration, media, frame_files, db_details,
             db_frames, index, page, updates, ran, failed>>
relayvars == <<rpc, cookie, subscribers, inbox, video_url, disconnected, out>>
filevars == <<tmp, response>>
purevars == <<labels, centroids, results_local, frames, frames_list>>
vars == <<jobvars, relayvars, filevars, purevars>>

Unknown == -99
NoFailure == [stage |-> "", text |-> ""]
NoUrl == [path |-> "", id |-> 0]
RootUrl == [path |-> "/", id |-> 0]
\* process.py:264  f"/v/{folder_id}"
VideoUrl(j) == [path |-> "/v/", id |-> j]

Min(a, b) == IF a <= b THEN a ELSE b
Last(s) == s[Len(s)]

(* ------------------------- progress events ----------------------------- *)
\* The dict handed to publish_update.  text is the message (the title and
\* the quality inside it are left out), index/total the numbers of
\* "Analyzed {index}/{total} frames...", video_url the page of a complete event.
Event(status, text, progress) ==
    [status |-> status, text |-> text, index |-> 0, total |-> 0,
     progress |-> progress, video_url |-> NoUrl]

fetching_metadata == Event("fetching_metadata", "Getting video info...", 5)
downloading == Event("downloading", "Downloading...", 15)
extracting_frames == Event("extracting_frames", "Extracting frames...", 35)
analyzing(n) == [Event("analyzing", "Analyzing frames...", 40) EXCEPT !.total = n]
building_page == Event("building_page", "Generating HTML page...", 95)

\* analyze_progress with round() in the place of int().
analyze_progress_rounded(i, n) == Min(50 + ((2 * 40 * i + n) \div (2 * n)), 90)

\* analyze_progress without the offset of 50: the share of the stage alone.
analyze_progress_share(i, n) == Min((40 * i) \div n, 90)

\* process.py:246-251  50 + int(40 * (index / total_frames)), capped at 90.
\* int() of the float product equals the integer floor for every total < 200.
analyze_progress(i, n) == Min(50 + ((40 * i) \div n), 90)

analyzed(i, n) ==
    [Event("analyzing", "Analyzed frames...", analyze_progress(i, n))
        EXCEPT !.index = i, !.total = n]

\* process.py:260-266
complete(j) ==
    [Event("complete", "Processing complete!", 100) EXCEPT !.video_url = VideoUrl(j)]

\* process.py:269-273
error(text) == Event("error", text, 100)

\* InvalidDuration letting a duration of 0 through.
InvalidDuration_negative(d) == d < 0 \/ d > 60

\* process.py:206
InvalidDuration(d) == d <= 0 \/ d > 60

InvalidDurationText == "Invalid or unsupported video duration (must be between 1 and 60 seconds)"
NoValidFileText == "Video download did not produce a valid file"
NoFramesText == "No frames were extracted from the video"
\* str(e) of the exception a failing stage raises, one text per stage.
FailureText(stage) ==
    CASE stage = "get_video_info" -> "yt-dlp -J failed"
      [] stage = "download_video" -> "yt-dlp download failed"
      [] stage = "extract_frames" -> "ffmpeg failed"
      [] stage = "db_details.insert" -> "details insert failed"
      [] stage = "analyze_frame_colors" -> "analysis failed"
      [] stage = "db_frames.insert" -> "frame insert failed"
      [] stage = "build_page" -> "page write failed"
      [] stage = "unlink" -> "unlink failed"

(* --------------------------- Progress Channel -------------------------- *)
\* A pubsub message as listen() yields it (app.py:80-82).
Message(data) == [type |-> "message", data |-> data]
\* The confirmation Redis sends to a pubsub after SUBSCRIBE.
SubscribeAck == [type |-> "subscribe", data |-> Event("", "", 0)]

\* A work queue instead of a broadcast: only one subscriber gets the message.
Deliver_one(topic, data) ==
    [r \in Relays |->
        IF r \in subscribers[topic] /\ \A q \in subscribers[topic] : r <= q
        THEN Append(inbox[r], Message(data)) ELSE inbox[r]]

\* redis PUBLISH: the message goes to every pubsub subscribed to the topic
\* at that moment, and to nobody else.
Deliver(topic, data) ==
    [r \in Relays |->
        IF r \in subscribers[topic] THEN Append(inbox[r], Message(data)) ELSE inbox[r]]

\* process.py:196-198  publish_update of job j.  "None" is the absent cookie:
\* with a falsy user_id nothing is sent to Redis.
publish_update(j, message) ==
    /\ user_id[j] # "None" => \A r \in subscribers[user_id[j]] : Len(inbox[r]) < MaxBacklog
    /\ updates' = [updates EXCEPT ![j] = Append(@, message)]
    /\ inbox' = IF user_id[j] # "None" THEN Deliver(user_id[j], message) ELSE inbox

(* ------------------------------ the job -------------------------------- *)
Invoke(j, stage, i) == ran' = [ran EXCEPT ![j] = Append(@, [stage |-> stage, index |-> i])]

\* Raise with the task going on where it stood: the failed stage runs again.
Raise_retry(j, stage, text) ==
    /\ jpc' = jpc
    /\ failed' = [failed EXCEPT ![j] = [stage |-> stage, text |-> text]]
    /\ publish_update(j, error(text))

\* process.py:268-274  the except clause: the exception becomes one error event.
Raise(j, stage, text) ==
    /\ jpc' = [jpc EXCEPT ![j] = "error"]
    /\ failed' = [failed EXCEPT ![j] = [stage |-> stage, text |-> text]]
    /\ publish_update(j, error(text))

\* The try block goes on: the next update is published, the next stage awaited.
Continue(j, next, message) ==
    /\ jpc' = [jpc EXCEPT ![j] = next]
    /\ failed' = failed
    /\ publish_update(j, message)

\* app.py:103-113  POST /process: the task is created, the handler returns.
process(j, c) ==
    /\ jpc[j] = "idle"
    /\ \A k \in 1..(j - 1) : jpc[k] # "idle"
    /\ jpc' = [jpc EXCEPT ![j] = "created"]
    /\ user_id' = [user_id EXCEPT ![j] = c]
    /\ UNCHANGED <<folder, duration, media, frame_files, db_details, db_frames,
                   index, page, updates, ran, failed>>
    /\ UNCHANGED relayvars
    /\ UNCHANGED <<filevars, purevars>>

\* process.py:186-201  the task starts: job folder, first update.
start_process_video(j) ==
    /\ jpc[j] = "created"
    /\ folder' = [folder EXCEPT ![j] = TRUE]
    /\ Continue(j, "get_video_info", fetching_metadata)
    /\ UNCHANGED <<user_id, duration, media, frame_files, db_details, db_frames,
                   index, page, ran>>
    /\ UNCHANGED <<rpc, cookie, subscribers, video_url, disconnected, out>>
    /\ UNCHANGED <<filevars, purevars>>

\* process.py:202-209  metadata, then the duration check.
get_video_info(j) ==
    /\ jpc[j] = "get_video_info"
    /\ Invoke(j, "get_video_info", 0)
    /\ \E ok \in BOOLEAN, d \in Durations :
          IF ~ok
          THEN /\ Raise(j, "get_video_info", FailureText("get_video_info"))
               /\ duration' = duration
          ELSE /\ duration' = [duration EXCEPT ![j] = d]
               /\ IF InvalidDuration(d)
                  THEN Raise(j, "duration check", InvalidDurationText)
                  ELSE Continue(j, "download_video", downloading)
    /\ UNCHANGED <<user_id, folder, media, frame_files, db_details, db_frames,
                   index, page>>
    /\ UNCHANGED <<rpc, cookie, subscribers, video_url, disconnected, out>>
    /\ UNCHANGED <<filevars, purevars>>

\* process.py:213
ValidFile(m) == m = "present"

\* process.py:210-216  download, then the check of the downloaded file.
\* result: the tool fails, or returns leaving no file, an empty file or a file.
download_video(j) ==
    /\ jpc[j] = "download_video"
    /\ Invoke(j, "download_video", 0)
    /\ \E result \in {"fails", "absent", "empty", "present"} :
          /\ media' = [media EXCEPT ![j] = IF result = "fails" THEN "absent" ELSE result]
          /\ IF result = "fails"
             THEN Raise(j, "download_video", FailureText("download_video"))
             ELSE IF ~ValidFile(result)
                  THEN Raise(j, "file check", NoValidFileText)
                  ELSE Continue(j, "extract_frames", extracting_frames)
    /\ UNCHANGED <<user_id, folder, duration, frame_files, db_details, db_frames,
                   index, page>>
    /\ UNCHANGED <<rpc, cookie, subscribers, video_url, disconnected, out>>
    /\ UNCHANGED <<filevars, purevars>>

\* process.py:217  ffmpeg leaves n frame files (frame_00 .. frame_<n-1>).
extract_frames(j) ==
    /\ jpc[j] = "extract_frames"
    /\ Invoke(j, "extract_frames", 0)
    /\ \E ok \in BOOLEAN, n \in 0..MaxFrames :
          IF ~ok
          THEN /\ Raise(j, "extract_frames", FailureText("extract_frames"))
               /\ frame_files' = frame_files
          ELSE /\ frame_files' = [frame_files EXCEPT ![j] = n]
               /\ jpc' = [jpc EXCEPT ![j] = "db_details.insert"]
               /\ UNCHANGED <<failed, updates, inbox>>
    /\ UNCHANGED <<user_id, folder, duration, media, db_details, db_frames,
                   index, page>>
    /\ UNCHANGED <<rpc, cookie, subscribers, video_url, disconnected, out>>
    /\ UNCHANGED <<filevars, purevars>>

\* process.py:219-236  the details record, then the check for frames.
insert_details(j) ==
    /\ jpc[j] = "db_details.insert"
    /\ Invoke(j, "db_details.insert", 0)
    /\ \E ok \in BOOLEAN :
          IF ~ok
          THEN /\ Raise(j, "db_details.insert", FailureText("db_details.insert"))
               /\ db_details' = db_details
          ELSE /\ db_details' = [db_details EXCEPT ![j] = @ + 1]
               /\ IF frame_files[j] = 0
                  THEN Raise(j, "frame check", NoFramesText)
                  ELSE Continue(j, "analyzing", analyzing(frame_files[j]))
    /\ UNCHANGED <<user_id, folder, duration, media, frame_files, db_frames,
                   index, page>>
    /\ UNCHANGED <<rpc, cookie, subscribers, video_url, disconnected, out>>
    /\ UNCHANGED <<filevars, purevars>>

\* The loop over the frame files as glob lists them, without sorted().
analyze_frame_unsorted(j) ==
    /\ jpc[j] = "analyzing"
    /\ index[j] < frame_files[j]
    /\ LET i == index[j] + 1 IN
       \E outcome \in {"ok", "analysis fails", "insert fails"} :
          /\ ran' = [ran EXCEPT ![j] =
                        IF outcome = "analysis fails"
                        THEN Append(@, [stage |-> "analyze_frame_colors", index |-> i])
                        ELSE @ \o <<[stage |-> "analyze_frame_colors", index |-> i],
                                    [stage |-> "db_frames.insert", index |-> i]>>]
          /\ IF outcome = "analysis fails"
             THEN /\ Raise(j, "analyze_frame_colors", FailureText("analyze_frame_colors"))
                  /\ UNCHANGED <<db_frames, index>>
             ELSE IF outcome = "insert fails"
             THEN /\ Raise(j, "db_frames.insert", FailureText("db_frames.insert"))
                  /\ UNCHANGED <<db_frames, index>>
             ELSE /\ \E f \in 0..(frame_files[j] - 1) :
                        /\ \A k \in 1..Len(db_frames[j]) : db_frames[j][k] # f
                        /\ db_frames' = [db_frames EXCEPT ![j] = Append(@, f)]
                  /\ index' = [index EXCEPT ![j] = i]
                  /\ Continue(j, "analyzing", analyzed(i, frame_files[j]))
    /\ UNCHANGED <<user_id, folder, duration, media, frame_files, db_details, page>>
    /\ UNCHANGED <<rpc, cookie, subscribers, video_url, disconnected, out>>
    /\ UNCHANGED <<filevars, purevars>>

\* process.py:237-251  one turn of the loop: analysis, frame record, update.
analyze_frame(j) ==
    /\ jpc[j] = "analyzing"
    /\ index[j] < frame_files[j]
    /\ LET i == index[j] + 1 IN
       \E outcome \in {"ok", "analysis fails", "insert fails"} :
          /\ ran' = [ran EXCEPT ![j] =
                        IF outcome = "analysis fails"
                        THEN Append(@, [stage |-> "analyze_frame_colors", index |-> i])
                        ELSE @ \o <<[stage |-> "analyze_frame_colors", index |-> i],
                                    [stage |-> "db_frames.insert", index |-> i]>>]
          /\ IF outcome = "analysis fails"
             THEN /\ Raise(j, "analyze_frame_colors", FailureText("analyze_frame_colors"))
                  /\ UNCHANGED <<db_frames, index>>
             ELSE IF outcome = "insert fails"
             THEN /\ Raise(j, "db_frames.insert", FailureText("db_frames.insert"))
                  /\ UNCHANGED <<db_frames, index>>
             ELSE /\ db_frames' = [db_frames EXCEPT ![j] = Append(@, i - 1)]
                  /\ index' = [index EXCEPT ![j] = i]
                  /\ Continue(j, "analyzing", analyzed(i, frame_files[j]))
    /\ UNCHANGED <<user_id, folder, duration, media, frame_files, db_details, page>>
    /\ UNCHANGED <<rpc, cookie, subscribers, video_url, disconnected, out>>
    /\ UNCHANGED <<filevars, purevars>>

\* publish_building_page leaving the loop after any frame.
publish_building_page_early(j) ==
    /\ jpc[j] = "analyzing"
    /\ index[j] >= 1
    /\ Continue(j, "build_page", building_page)
    /\ UNCHANGED <<user_id, folder, duration, media, frame_files, db_details,
                   db_frames, index, page, ran>>
    /\ UNCHANGED <<rpc, cookie, subscribers, video_url, disconnected, out>>
    /\ UNCHANGED <<filevars, purevars>>

\* The loop left one turn too late: a frame that does not exist is waited for.
publish_building_page_late(j) ==
    /\ jpc[j] = "analyzing"
    /\ index[j] > frame_files[j]
    /\ Continue(j, "build_page", building_page)
    /\ UNCHANGED <<user_id, folder, duration, media, frame_files, db_details,
                   db_frames, index, page, ran>>
    /\ UNCHANGED <<rpc, cookie, subscribers, video_url, disconnected, out>>
    /\ UNCHANGED <<filevars, purevars>>

\* process.py:253-255  the loop is over: the store is read, the update published.
publish_building_page(j) ==
    /\ jpc[j] = "analyzing"
    /\ index[j] = frame_files[j]
    /\ Continue(j, "build_page", building_page)
    /\ UNCHANGED <<user_id, folder, duration, media, frame_files, db_details,
                   db_frames, index, page, ran>>
    /\ UNCHANGED <<rpc, cookie, subscribers, video_url, disconnected, out>>
    /\ UNCHANGED <<filevars, purevars>>

\* build_page with the media file removed before the page is written.
build_page_after_unlink(j) ==
    /\ jpc[j] = "build_page"
    /\ Invoke(j, "build_page", 0)
    /\ media' = [media EXCEPT ![j] = "absent"]
    /\ \E ok \in BOOLEAN :
          IF ~ok
          THEN /\ Raise(j, "build_page", FailureText("build_page"))
               /\ page' = page
          ELSE /\ page' = [page EXCEPT ![j] = "written"]
               /\ jpc' = [jpc EXCEPT ![j] = "unlink"]
               /\ UNCHANGED <<failed, updates, inbox>>
    /\ UNCHANGED <<user_id, folder, duration, frame_files, db_details,
                   db_frames, index>>
    /\ UNCHANGED <<rpc, cookie, subscribers, video_url, disconnected, out>>
    /\ UNCHANGED <<filevars, purevars>>

\* process.py:256, 177-183  the page is rendered and moved into place.
build_page(j) ==
    /\ jpc[j] = "build_page"
    /\ Invoke(j, "build_page", 0)
    /\ \E ok \in BOOLEAN :
          IF ~ok
          THEN /\ Raise(j, "build_page", FailureText("build_page"))
               /\ page' = page
          ELSE /\ page' = [page EXCEPT ![j] = "written"]
               /\ jpc' = [jpc EXCEPT ![j] = "unlink"]
               /\ UNCHANGED <<failed, updates, inbox>>
    /\ UNCHANGED <<user_id, folder, duration, media, frame_files, db_details,
                   db_frames, index>>
    /\ UNCHANGED <<rpc, cookie, subscribers, video_url, disconnected, out>>
    /\ UNCHANGED <<filevars, purevars>>

\* unlink with complete published before the media file is removed.
unlink_after_complete(j) ==
    /\ jpc[j] = "unlink"
    /\ Invoke(j, "unlink", 0)
    /\ \E ok \in BOOLEAN :
          IF ~ok
          THEN /\ jpc' = [jpc EXCEPT ![j] = "error"]
               /\ failed' = [failed EXCEPT ![j] =
                                [stage |-> "unlink", text |-> FailureText("unlink")]]
               /\ updates' = [updates EXCEPT ![j] =
                                @ \o <<complete(j), error(FailureText("unlink"))>>]
               /\ UNCHANGED <<media, inbox>>
          ELSE /\ media' = [media EXCEPT ![j] = "absent"]
               /\ Continue(j, "complete", complete(j))
    /\ UNCHANGED <<user_id, folder, duration, frame_files, db_details, db_frames,
                   index, page>>
    /\ UNCHANGED <<rpc, cookie, subscribers, video_url, disconnected, out>>
    /\ UNCHANGED <<filevars, purevars>>

\* process.py:258-266  the media file is removed, then complete is published.
unlink(j) ==
    /\ jpc[j] = "unlink"
    /\ Invoke(j, "unlink", 0)
    /\ \E ok \in BOOLEAN :
          IF ~ok
          THEN /\ Raise(j, "unlink", FailureText("unlink"))
               /\ media' = media
          ELSE /\ media' = [media EXCEPT ![j] = "absent"]
               /\ Continue(j, "complete", complete(j))
    /\ UNCHANGED <<user_id, folder, duration, frame_files, db_details, db_frames,
                   index, page>>
    /\ UNCHANGED <<rpc, cookie, subscribers, video_url, disconnected, out>>
    /\ UNCHANGED <<filevars, purevars>>

(* -------------------------- the page file ------------------------------ *)
\* build_page and GET /v/<folder_id> step by step, as the file system and a
\* reader outside the task see them.  The content of a file is "absent",
\* "empty" (created or truncated), "partial" or, complete, "full" for
\* video.html.tmp and "written" for video.html.
Grow(content) ==
    CASE content = "absent" -> "empty"
      [] content = "empty" -> "partial"
      [] OTHER -> "full"

Content(t) == IF t = "full" THEN "written" ELSE t

\* process.py:117-176  the HTML text is put together in memory.
render(j) ==
    /\ jpc[j] = "build_page"
    /\ Invoke(j, "build_page", 0)
    /\ \E ok \in BOOLEAN :
          IF ~ok
          THEN Raise(j, "build_page", FailureText("build_page"))
          ELSE /\ jpc' = [jpc EXCEPT ![j] = "write_text"]
               /\ UNCHANGED <<failed, updates, inbox>>
    /\ UNCHANGED <<user_id, folder, duration, media, frame_files, db_details,
                   db_frames, index, page>>
    /\ UNCHANGED <<rpc, cookie, subscribers, video_url, disconnected, out>>
    /\ UNCHANGED <<filevars, purevars>>

\* The text written straight to video.html, without the temporary file.
write_text_in_place(j) ==
    /\ jpc[j] = "write_text"
    /\ \E ok \in BOOLEAN :
          IF ~ok
          THEN /\ Raise(j, "build_page", FailureText("build_page"))
               /\ page' = page
          ELSE /\ page' = [page EXCEPT ![j] = Content(Grow(IF @ = "written" THEN "full" ELSE @))]
               /\ jpc' = [jpc EXCEPT ![j] = IF page'[j] = "written" THEN "unlink" ELSE @]
               /\ UNCHANGED <<failed, updates, inbox>>
    /\ UNCHANGED <<user_id, folder, duration, media, frame_files, db_details,
                   db_frames, index, ran>>
    /\ UNCHANGED <<rpc, cookie, subscribers, video_url, disconnected, out>>
    /\ UNCHANGED <<filevars, purevars>>

\* process.py:178-181  tmp_path.write_text(HTML): the temporary file is
\* created, filled and closed; an OSError at any point leaves it as it is.
write_text(j) ==
    /\ jpc[j] = "write_text"
    /\ \E ok \in BOOLEAN :
          IF ~ok
          THEN /\ Raise(j, "build_page", FailureText("build_page"))
               /\ tmp' = tmp
          ELSE /\ tmp' = [tmp EXCEPT ![j] = Grow(@)]
               /\ jpc' = [jpc EXCEPT ![j] = IF tmp'[j] = "full" THEN "os.replace" ELSE @]
               /\ UNCHANGED <<failed, updates, inbox>>
    /\ UNCHANGED <<user_id, folder, duration, media, frame_files, db_details,
                   db_frames, index, page, ran>>
    /\ UNCHANGED <<rpc, cookie, subscribers, video_url, disconnected, out>>
    /\ UNCHANGED <<response, purevars>>

\* process.py:182  os.replace(tmp_path, final_path): one rename.
os_replace(j) ==
    /\ jpc[j] = "os.replace"
    /\ \E ok \in BOOLEAN :
          IF ~ok
          THEN /\ Raise(j, "build_page", FailureText("build_page"))
               /\ UNCHANGED <<page, tmp>>
          ELSE /\ page' = [page EXCEPT ![j] = Content(tmp[j])]
               /\ tmp' = [tmp EXCEPT ![j] = "absent"]
               /\ jpc' = [jpc EXCEPT ![j] = "unlink"]
               /\ UNCHANGED <<failed, updates, inbox>>
    /\ UNCHANGED <<user_id, folder, duration, media, frame_files, db_details,
                   db_frames, index, ran>>
    /\ UNCHANGED <<rpc, cookie, subscribers, video_url, disconnected, out>>
    /\ UNCHANGED <<response, purevars>>

\* app.py:116-124  GET /v/<folder_id> up to the test vid_path.is_file().
video_page(j) ==
    /\ response[j] # "is_file"
    /\ response' = [response EXCEPT ![j] =
                       IF ~folder[j] THEN "folder not found"
                       ELSE IF page[j] = "absent" THEN "video.html not found"
                       ELSE "is_file"]
    /\ UNCHANGED <<jobvars, relayvars, tmp, purevars>>

\* app.py:125-127  the file is opened and read: the response is its content.
read(j) ==
    /\ response[j] = "is_file"
    /\ response' = [response EXCEPT ![j] = page[j]]
    /\ UNCHANGED <<jobvars, relayvars, tmp, purevars>>

(* -------------------------- analyze_frame_colors ----------------------- *)
\* process.py:102-103  kmeans(pixels_float, k) with k = 2 returns one or two
\* centroids, and vq gives every pixel the index of a centroid.
CentroidCounts == {1, 2}

Labelings(K) == UNION {[1..n -> 0..(K - 1)] : n \in 1..MaxPixels}

\* Python's round of the quotient n / d: to the nearest integer, a half to
\* the even one.
round(n, d) ==
    LET q == n \div d
        r == n % d
    IN  IF 2 * r < d THEN q
        ELSE IF 2 * r > d THEN q + 1
        ELSE IF q % 2 = 0 THEN q ELSE q + 1

\* The pixels with label l.
Assigned(l) == Cardinality({p \in 1..Len(labels) : labels[p] = l})

\* process.py:104  np.unique(labels, return_counts=True): the labels that
\* occur, in ascending order, and how often each occurs.
unique ==
    LET present == {l \in 0..(centroids - 1) : Assigned(l) > 0}
    IN  [pos \in 1..Cardinality(present) |->
            CHOOSE l \in present : Cardinality({m \in present : m < l}) = pos - 1]

counts == [pos \in 1..Len(unique) |-> Assigned(unique[pos])]

\* process.py:105  h * w
total_pixels == Len(labels)

\* process.py:111  the percentage of centroid i (counted from 0): counts is
\* indexed with the centroid's index.
percentage(i) == IF i < Len(counts) THEN round(100 * counts[i + 1], total_pixels) ELSE 0

\* process.py:107-113  the loop over the centroids.
analyze_frame_colors ==
    /\ labels # <<>>
    /\ results_local = <<>>
    /\ results_local' = [i \in 1..centroids |-> percentage(i - 1)]
    /\ UNCHANGED <<jobvars, relayvars, filevars, labels, centroids, frames, frames_list>>

(* -------------------------- the loop of build_page --------------------- *)
\* A frame record is taken as the number of clusters of its analysis: what
\* kmeans found, one for a frame of a single color, else two (k = 2).
ClusterCounts == {1, 2}

FrameLists == UNION {[1..n -> ClusterCounts] : n \in 0..MaxRecords}

\* process.py:140-143  one bar per cluster of the record.
color_bars(clusters) == clusters

\* process.py:126-151  one turn of the loop over frames: the bars of the
\* record, then its group appended to frames_list.  There is no test on
\* the number of clusters.
append_group ==
    /\ Len(frames_list) < Len(frames)
    /\ frames_list' = Append(frames_list, color_bars(frames[Len(frames_list) + 1]))
    /\ UNCHANGED <<jobvars, relayvars, filevars, labels, centroids, results_local, frames>>

(* -------------------------- the status stream -------------------------- *)
\* What the generator yields.  kind: "gallery" (the snapshot, app.py:72),
\* "status" (app.py:96), "done" (app.py:85), "redirect" (app.py:100).
Sse(kind) ==
    [kind |-> kind, items |-> {}, status |-> "", text |-> "", progress |-> 0,
     to |-> NoUrl]

\* app.py:57-66  the folders whose frames.json holds db_details record 1.
Listed == {j \in Jobs : folder[j] /\ db_details[j] >= 1}

\* app.py:88-96
StatusFragment(data) ==
    [Sse("status") EXCEPT !.status = data.status, !.text = data.text,
                          !.progress = data.progress]

\* app.py:100  video_url or "/"
RedirectTarget(url) == IF url = NoUrl THEN RootUrl ELSE url

\* app.py:52-72  GET /status_updates up to the first yield.  gallery_html is
\* assigned inside the loop over the folders only: with no folder (or no
\* videos directory yet) line 72 or line 57 raises and the response ends.
status_updates(r, c) ==
    /\ rpc[r] = "idle"
    /\ \A k \in 1..(r - 1) : rpc[k] # "idle"
    /\ cookie' = [cookie EXCEPT ![r] = c]
    /\ IF \E j \in Jobs : folder[j]
       THEN /\ out' = [out EXCEPT ![r] = Append(@, [Sse("gallery") EXCEPT !.items = Listed])]
            /\ rpc' = [rpc EXCEPT ![r] = "subscribe"]
       ELSE /\ out' = out
            /\ rpc' = [rpc EXCEPT ![r] = "crashed"]
    /\ UNCHANGED <<subscribers, inbox, video_url, disconnected>>
    /\ UNCHANGED jobvars
    /\ UNCHANGED <<filevars, purevars>>

\* A subscription that replays the topic's history, as a stream or a log would.
subscribe_replay(r) ==
    /\ rpc[r] = "subscribe"
    /\ subscribers' = [subscribers EXCEPT ![cookie[r]] = @ \cup {r}]
    /\ inbox' = [inbox EXCEPT ![r] =
                    LET j == CHOOSE k \in Jobs : \A q \in Jobs : Len(updates[q]) <= Len(updates[k])
                    IN  <<SubscribeAck>> \o [k \in 1..Len(updates[j]) |-> Message(updates[j][k])]]
    /\ rpc' = [rpc EXCEPT ![r] = "listen"]
    /\ UNCHANGED <<cookie, video_url, disconnected, out>>
    /\ UNCHANGED jobvars
    /\ UNCHANGED <<filevars, purevars>>

\* app.py:74-78
subscribe(r) ==
    /\ rpc[r] = "subscribe"
    /\ subscribers' = [subscribers EXCEPT ![cookie[r]] = @ \cup {r}]
    /\ inbox' = [inbox EXCEPT ![r] = Append(@, SubscribeAck)]
    /\ rpc' = [rpc EXCEPT ![r] = "listen"]
    /\ UNCHANGED <<cookie, video_url, disconnected, out>>
    /\ UNCHANGED jobvars
    /\ UNCHANGED <<filevars, purevars>>

\* listen without the break of line 86: the loop goes on after complete.
listen_no_break(r) ==
    /\ rpc[r] = "listen"
    /\ inbox[r] # <<>>
    /\ inbox' = [inbox EXCEPT ![r] = Tail(@)]
    /\ LET message == Head(inbox[r])
           data == message.data
       IN  IF message.type # "message"
           THEN UNCHANGED <<rpc, video_url, out>>
           ELSE IF data.status = "complete"
           THEN /\ video_url' = [video_url EXCEPT ![r] = data.video_url]
                /\ out' = [out EXCEPT ![r] = Append(@, Sse("done"))]
                /\ UNCHANGED rpc
           ELSE /\ out' = [out EXCEPT ![r] = Append(@, StatusFragment(data))]
                /\ UNCHANGED <<rpc, video_url>>
    /\ UNCHANGED <<cookie, subscribers, disconnected>>
    /\ UNCHANGED jobvars
    /\ UNCHANGED <<filevars, purevars>>

\* app.py:80-96  one turn of the loop over pubsub.listen().
listen(r) ==
    /\ rpc[r] = "listen"
    /\ inbox[r] # <<>>
    /\ inbox' = [inbox EXCEPT ![r] = Tail(@)]
    /\ LET message == Head(inbox[r])
           data == message.data
       IN  IF message.type # "message"
           THEN UNCHANGED <<rpc, video_url, out>>
           ELSE IF data.status = "complete"
           THEN /\ video_url' = [video_url EXCEPT ![r] = data.video_url]
                /\ out' = [out EXCEPT ![r] = Append(@, Sse("done"))]
                /\ rpc' = [rpc EXCEPT ![r] = "finally"]
           ELSE /\ out' = [out EXCEPT ![r] = Append(@, StatusFragment(data))]
                /\ UNCHANGED <<rpc, video_url>>
    /\ UNCHANGED <<cookie, subscribers, disconnected>>
    /\ UNCHANGED jobvars
    /\ UNCHANGED <<filevars, purevars>>

\* The generator is left at a point where it is suspended: the client
\* disconnects (the generator is closed), or, in the loop, handling a message
\* raises.  Inside the try block control passes to the finally clause; at the
\* yield of line 72, before the subscription, the generator just ends.
leave(r, why) ==
    /\ \/ rpc[r] = "listen" /\ rpc' = [rpc EXCEPT ![r] = "finally"]
       \/ rpc[r] = "subscribe" /\ why = "disconnect" /\ rpc' = [rpc EXCEPT ![r] = "done"]
    /\ disconnected' = [disconnected EXCEPT ![r] = (why = "disconnect")]
    /\ UNCHANGED <<cookie, subscribers, inbox, video_url, out>>
    /\ UNCHANGED jobvars
    /\ UNCHANGED <<filevars, purevars>>

\* The topic closed for every stream of the user, not for this pubsub only.
unsubscribe_all(r) == [subscribers EXCEPT ![cookie[r]] = {}]

\* unsubscribe left out of the finally clause.
unsubscribe_skipped(r) == subscribers

\* app.py:98-99
unsubscribe(r) == [subscribers EXCEPT ![cookie[r]] = @ \ {r}]

\* app.py:97-100  the finally clause.  A closed generator cannot yield, so a
\* client that has gone gets no redirect.
finally(r) ==
    /\ rpc[r] = "finally"
    /\ subscribers' = unsubscribe(r)
    /\ inbox' = [inbox EXCEPT ![r] = <<>>]
    /\ out' = [out EXCEPT ![r] =
                 IF disconnected[r] THEN @
                 ELSE Append(@, [Sse("redirect") EXCEPT !.to = RedirectTarget(video_url[r])])]
    /\ rpc' = [rpc EXCEPT ![r] = "done"]
    /\ UNCHANGED <<cookie, video_url, disconnected>>
    /\ UNCHANGED jobvars
    /\ UNCHANGED <<filevars, purevars>>

(* --------------------------- specification ----------------------------- *)
NoJobs ==
    /\ jpc = [j \in Jobs |-> "idle"]
    /\ user_id = [j \in Jobs |-> "None"]
    /\ folder = [j \in Jobs |-> FALSE]
    /\ duration = [j \in Jobs |-> Unknown]
    /\ media = [j \in Jobs |-> "absent"]
    /\ frame_files = [j \in Jobs |-> 0]
    /\ db_details = [j \in Jobs |-> 0]
    /\ db_frames = [j \in Jobs |-> <<>>]
    /\ index = [j \in Jobs |-> 0]
    /\ page = [j \in Jobs |-> "absent"]
    /\ updates = [j \in Jobs |-> <<>>]
    /\ ran = [j \in Jobs |-> <<>>]
    /\ failed = [j \in Jobs |-> NoFailure]
    /\ tmp = [j \in Jobs |-> "absent"]

NoStreams ==
    /\ rpc = [r \in Relays |-> "idle"]
    /\ cookie = [r \in Relays |-> "None"]
    /\ subscribers = [c \in Cookies |-> {}]
    /\ inbox = [r \in Relays |-> <<>>]
    /\ video_url = [r \in Relays |-> NoUrl]
    /\ disconnected = [r \in Relays |-> FALSE]
    /\ out = [r \in Relays |-> <<>>]
    /\ response = [j \in Jobs |-> "none"]

\* The server just started, videos/ empty.
Booted == NoJobs /\ NoStreams

\* Neither analyze_frame_colors nor the loop of build_page taken on its own.
NoCall ==
    /\ labels = <<>>
    /\ centroids = 0
    /\ results_local = <<>>
    /\ frames = <<>>
    /\ frames_list = <<>>

Init == Booted /\ NoCall

\* POST /process for one of the jobs JS.
Post(JS) == \E j \in JS, c \in Cookies : process(j, c)

\* The steps of the process_video tasks of the jobs JS.
Pipeline(JS) ==
    \/ \E j \in JS : start_process_video(j)
    \/ \E j \in JS : get_video_info(j)
    \/ \E j \in JS : download_video(j)
    \/ \E j \in JS : extract_frames(j)
    \/ \E j \in JS : insert_details(j)
    \/ \E j \in JS : analyze_frame(j)
    \/ \E j \in JS : publish_building_page(j)
    \/ \E j \in JS : build_page(j)
    \/ \E j \in JS : unlink(j)

\* The steps of the status streams RS.
Stream(RS) ==
    \/ \E r \in RS, c \in Cookies : status_updates(r, c)
    \/ \E r \in RS : subscribe(r)
    \/ \E r \in RS : listen(r)
    \/ \E r \in RS, why \in {"disconnect", "failure"} : leave(r, why)
    \/ \E r \in RS : finally(r)

NoJobRunning == \A j \in Jobs : jpc[j] \in {"idle", "complete", "error"}

\* One status stream, and two jobs posted one after the other's end.
Next ==
    \/ NoJobRunning /\ Post({1, 2})
    \/ Pipeline({1, 2})
    \/ Stream({1})
Spec == Init /\ [][Next]_vars

\* Two jobs running side by side.
NextPipeline == Post({1, 2}) \/ Pipeline({1, 2})
SpecPipeline == Init /\ [][NextPipeline]_vars

\* The server with the folder of an earlier job in videos/: job 1, posted
\* without a cookie, ended when its metadata call failed.
InitFanout ==
    /\ jpc = [j \in Jobs |-> IF j = 1 THEN "error" ELSE "idle"]
    /\ user_id = [j \in Jobs |-> "None"]
    /\ folder = [j \in Jobs |-> j = 1]
    /\ duration = [j \in Jobs |-> Unknown]
    /\ media = [j \in Jobs |-> "absent"]
    /\ frame_files = [j \in Jobs |-> 0]
    /\ db_details = [j \in Jobs |-> 0]
    /\ db_frames = [j \in Jobs |-> <<>>]
    /\ index = [j \in Jobs |-> 0]
    /\ page = [j \in Jobs |-> "absent"]
    /\ updates = [j \in Jobs |->
                    IF j = 1 THEN <<fetching_metadata, error(FailureText("get_video_info"))>>
                    ELSE <<>>]
    /\ ran = [j \in Jobs |->
                IF j = 1 THEN <<[stage |-> "get_video_info", index |-> 0]>> ELSE <<>>]
    /\ failed = [j \in Jobs |->
                   IF j = 1 THEN [stage |-> "get_video_info",
                                  text |-> FailureText("get_video_info")]
                   ELSE NoFailure]
    /\ rpc = [r \in Relays |-> "idle"]
    /\ cookie = [r \in Relays |-> "None"]
    /\ subscribers = [c \in Cookies |-> {}]
    /\ inbox = [r \in Relays |-> <<>>]
    /\ video_url = [r \in Relays |-> NoUrl]
    /\ disconnected = [r \in Relays |-> FALSE]
    /\ out = [r \in Relays |-> <<>>]
    /\ tmp = [j \in Jobs |-> "absent"]
    /\ response = [j \in Jobs |-> "none"]
    /\ NoCall

\* One job (job 2) and two status streams.
NextFanout == Post({2}) \/ Pipeline({2}) \/ Stream({1, 2})
SpecFanout == InitFanout /\ [][NextFanout]_vars

\* Two jobs side by side on the event loop: a task that can take a step is
\* not left waiting for ever, and each awaited call returns.
Fairness == \A j \in Jobs : WF_vars(Pipeline({j}))
SpecLive == Init /\ [][NextPipeline]_vars /\ Fairness

\* The analysis loop of one job on its own, for every number of frame files
\* up to MaxSampled: job 1 stands where process_video has inserted the
\* details record and published analyzing (process.py:236).
InitProgress ==
    /\ NoStreams
    /\ NoCall
    /\ db_frames = [j \in Jobs |-> <<>>]
    /\ index = [j \in Jobs |-> 0]
    /\ page = [j \in Jobs |-> "absent"]
    /\ failed = [j \in Jobs |-> NoFailure]
    /\ tmp = [j \in Jobs |-> "absent"]
    /\ \E n \in 1..MaxSampled :
          /\ jpc = [j \in Jobs |-> IF j = 1 THEN "analyzing" ELSE "idle"]
          /\ user_id = [j \in Jobs |-> IF j = 1 THEN "u1" ELSE "None"]
          /\ folder = [j \in Jobs |-> j = 1]
          /\ duration = [j \in Jobs |-> IF j = 1 THEN 60 ELSE Unknown]
          /\ media = [j \in Jobs |-> IF j = 1 THEN "present" ELSE "absent"]
          /\ frame_files = [j \in Jobs |-> IF j = 1 THEN n ELSE 0]
          /\ db_details = [j \in Jobs |-> IF j = 1 THEN 1 ELSE 0]
          /\ updates = [j \in Jobs |->
                          IF j = 1
                          THEN <<fetching_metadata, downloading, extracting_frames,
                                 analyzing(n)>>
                          ELSE <<>>]
          /\ ran = [j \in Jobs |->
                      IF j = 1
                      THEN [k \in 1..4 |->
                              [stage |-> <<"get_video_info", "download_video",
                                           "extract_frames", "db_details.insert">>[k],
                               index |-> 0]]
                      ELSE <<>>]
NextProgress ==
    \/ \E j \in {1} : analyze_frame(j)
    \/ \E j \in {1} : publish_building_page(j)
    \/ \E j \in {1} : build_page(j)
    \/ \E j \in {1} : unlink(j)
SpecProgress == InitProgress /\ [][NextProgress]_vars

\* One job with build_page step by step, and a reader of its page.
NextPage ==
    \/ Post({1})
    \/ \E j \in {1} : start_process_video(j)
    \/ \E j \in {1} : get_video_info(j)
    \/ \E j \in {1} : download_video(j)
    \/ \E j \in {1} : extract_frames(j)
    \/ \E j \in {1} : insert_details(j)
    \/ \E j \in {1} : analyze_frame(j)
    \/ \E j \in {1} : publish_building_page(j)
    \/ \E j \in {1} : render(j)
    \/ \E j \in {1} : write_text(j)
    \/ \E j \in {1} : os_replace(j)
    \/ \E j \in {1} : unlink(j)
    \/ \E j \in {1} : video_page(j)
    \/ \E j \in {1} : read(j)
SpecPage == Init /\ [][NextPage]_vars

\* The loop of build_page on every list of up to MaxRecords frame records.
InitBuildPage ==
    /\ Booted
    /\ labels = <<>> /\ centroids = 0 /\ results_local = <<>>
    /\ frames \in FrameLists
    /\ frames_list = <<>>
NextBuildPage == append_group
SpecBuildPage == InitBuildPage /\ [][NextBuildPage]_vars

\* analyze_frame_colors on every labeling of up to MaxPixels pixels.
InitAnalyze ==
    /\ Booted
    /\ centroids \in CentroidCounts
    /\ labels \in Labelings(centroids)
    /\ results_local = <<>>
    /\ frames = <<>> /\ frames_list = <<>>
NextAnalyze == analyze_frame_colors
SpecAnalyze == InitAnalyze /\ [][NextAnalyze]_vars

(* ------------------------ properties of one job ------------------------ *)
Terminal(e) == e.status \in {"complete", "error"}

\* The updates of job j without a closing error event.
BeforeError(j) ==
    LET u == updates[j] IN
    IF u # <<>> /\ Last(u).status = "error" THEN SubSeq(u, 1, Len(u) - 1) ELSE u

\* The statuses of a run over n frames that reaches complete.
StatusOrder(n) ==
    <<"fetching_metadata", "downloading", "extracting_frames", "analyzing">>
    \o [i \in 1..n |-> "analyzing"] \o <<"building_page", "complete">>

\* The checkpoint of each status outside the per-frame events.
Checkpoint(status) ==
    CASE status = "fetching_metadata" -> 5
      [] status = "downloading" -> 15
      [] status = "extracting_frames" -> 35
      [] status = "analyzing" -> 40
      [] status = "building_page" -> 95
      [] status = "complete" -> 100

\* C1: the updates of a job are, in this order, fetching_metadata(5),
\* downloading(15), extracting_frames(35), analyzing(40), one analyzing
\* update per frame file for frames 1, 2, .. n, building_page(95) and
\* complete(100), or a prefix of that, with at most one error update closing it.
C1_StateMachineOrder ==
    \A j \in Jobs :
        LET body == BeforeError(j)
            n == frame_files[j]
        IN  /\ Len(body) <= n + 6
            /\ \A k \in 1..Len(body) :
                  /\ body[k].status = StatusOrder(n)[k]
                  /\ IF k \in 5..(4 + n)
                     THEN body[k].index = k - 4 /\ body[k].total = n
                     ELSE body[k].progress = Checkpoint(body[k].status)

\* A job has gone through every stage over at least two frames.
C1_Witness ==
    \E j \in Jobs : jpc[j] = "complete" /\ frame_files[j] >= 2 /\ Len(updates[j]) = frame_files[j] + 6

\* C2: an update with status complete or error is the last update of its
\* job: nothing follows a terminal update, so a job has at most one of them.
C2_TerminalIsLast ==
    \A j \in Jobs : \A k \in 1..Len(updates[j]) :
        Terminal(updates[j][k]) => k = Len(updates[j])

\* One job has ended with complete and another with an error at its last stage.
C2_Witness ==
    \E j, k \in Jobs :
        /\ jpc[j] = "complete" /\ Last(updates[j]).status = "complete"
        /\ jpc[k] = "error" /\ failed[k].stage = "unlink" /\ Last(updates[k]).status = "error"

\* C3: the progress values of the updates of a job never decrease.
C3_ProgressMonotone ==
    \A j \in Jobs : \A k \in 1..(Len(updates[j]) - 1) :
        updates[j][k].progress <= updates[j][k + 1].progress

\* A job over at least two frames has published its per-frame updates and ended.
C3_Witness ==
    \E j \in Jobs :
        /\ frame_files[j] >= 2 /\ index[j] = frame_files[j]
        /\ updates[j] # <<>> /\ Terminal(Last(updates[j]))

\* C4: a job whose metadata gives a duration <= 0 or > 60 is in Error: its
\* updates are fetching_metadata and then the error of progress 100 with
\* the invalid-duration message, no stage after get_video_info has been
\* invoked and there is no media file in its folder.
C4_InvalidDurationRejected ==
    \A j \in Jobs :
        (duration[j] # Unknown /\ (duration[j] <= 0 \/ duration[j] > 60)) =>
            /\ jpc[j] = "error"
            /\ Len(updates[j]) = 2
            /\ updates[j][1].status = "fetching_metadata"
            /\ updates[j][2].status = "error"
            /\ updates[j][2].progress = 100
            /\ updates[j][2].text = InvalidDurationText
            /\ \A k \in 1..Len(ran[j]) : ran[j][k].stage = "get_video_info"
            /\ media[j] = "absent"

\* Jobs with durations 0 and 61 have been rejected.
C4_Witness ==
    \E j, k \in Jobs :
        /\ duration[j] = 0 /\ jpc[j] = "error"
        /\ duration[k] = 61 /\ jpc[k] = "error"

\* The stage invocations of a run over n frames that reaches complete.
StageOrder(n) ==
    <<[stage |-> "get_video_info", index |-> 0],
      [stage |-> "download_video", index |-> 0],
      [stage |-> "extract_frames", index |-> 0],
      [stage |-> "db_details.insert", index |-> 0]>>
    \o [k \in 1..(2 * n) |->
          IF k % 2 = 1 THEN [stage |-> "analyze_frame_colors", index |-> (k + 1) \div 2]
                       ELSE [stage |-> "db_frames.insert", index |-> k \div 2]]
    \o <<[stage |-> "build_page", index |-> 0], [stage |-> "unlink", index |-> 0]>>

\* The stage whose invocation comes last when a failure is raised at `stage`.
LastInvoked(stage) ==
    CASE stage = "duration check" -> "get_video_info"
      [] stage = "file check" -> "download_video"
      [] stage = "frame check" -> "db_details.insert"
      [] OTHER -> stage

\* C5: once a step of a job has failed, the job is in Error, its last update
\* is an error of progress 100 carrying the failure's message and is its only
\* error update; every stage was invoked at most once and in order, and the
\* failed step is the last one invoked.
C5_FailureBecomesOneError ==
    \A j \in Jobs :
        failed[j] # NoFailure =>
            /\ jpc[j] = "error"
            /\ updates[j] # <<>>
            /\ Last(updates[j]).status = "error"
            /\ Last(updates[j]).progress = 100
            /\ Last(updates[j]).text = failed[j].text
            /\ Cardinality({k \in 1..Len(updates[j]) : updates[j][k].status = "error"}) = 1
            /\ ran[j] # <<>>
            /\ Len(ran[j]) <= 2 * frame_files[j] + 6
            /\ \A k \in 1..Len(ran[j]) : ran[j][k] = StageOrder(frame_files[j])[k]
            /\ Last(ran[j]).stage = LastInvoked(failed[j].stage)

\* A frame analysis has failed in one job and the store insert in another.
C5_Witness ==
    \E j, k \in Jobs :
        /\ failed[j].stage = "analyze_frame_colors" /\ index[j] >= 1
        /\ failed[k].stage = "db_details.insert"

\* C10: a job that has published complete has removed video.mp4; a job that
\* has ended with an error has not: either unlink was never invoked or it is
\* the step that failed, and a file that passed the download check is still there.
C10_MediaDeletedIffComplete ==
    \A j \in Jobs :
        /\ jpc[j] = "complete" =>
              /\ media[j] = "absent"
              /\ \E k \in 1..Len(ran[j]) : ran[j][k].stage = "unlink"
        /\ jpc[j] = "error" =>
              /\ (\E k \in 1..Len(ran[j]) : ran[j][k].stage = "unlink") =>
                    failed[j].stage = "unlink"
              /\ (\E k \in 1..Len(updates[j]) : updates[j][k].status = "extracting_frames") =>
                    media[j] = "present"

\* One job has completed and another has failed after its download.
C10_Witness ==
    \E j, k \in Jobs :
        /\ jpc[j] = "complete" /\ media[j] = "absent"
        /\ jpc[k] = "error" /\ failed[k].stage = "build_page" /\ media[k] = "present"

(* --------------------- properties of the status stream ----------------- *)
Forwarded(r, status) ==
    \E k \in 1..Len(out[r]) : out[r][k].kind = "status" /\ out[r][k].status = status

\* C6: a status stream that has surfaced an error event has left its loop
\* over the channel (it is in its finally clause, or has ended with its
\* redirect).
C6_ErrorEndsStream ==
    \A r \in Relays : Forwarded(r, "error") => rpc[r] \in {"finally", "done"}

\* C7: once a status stream has yielded the fragment of a complete event, it
\* yields nothing but its redirect; its video_url is the page "/v/<job>" of a
\* job that published complete under the stream's cookie, and a stream that
\* ends with its client still there ends with the redirect to that page.
C7_CompleteEndsStream ==
    \A r \in Relays : \A k \in 1..Len(out[r]) :
        out[r][k].kind = "done" =>
            /\ rpc[r] \in {"finally", "done"}
            /\ \E j \in Jobs :
                  /\ video_url[r] = VideoUrl(j)
                  /\ user_id[j] = cookie[r]
                  /\ Last(updates[j]) = complete(j)
            /\ Len(out[r]) <= k + 1
            /\ rpc[r] = "finally" => Len(out[r]) = k
            /\ rpc[r] = "done" =>
                  /\ Len(out[r]) = k + 1
                  /\ out[r][k + 1].kind = "redirect"
                  /\ out[r][k + 1].to = video_url[r]

\* A stream has ended with the redirect to the page of job 1 while the later
\* job 2 has published updates on the same topic.
C7_Witness ==
    \E r \in Relays :
        /\ rpc[r] = "done"
        /\ Last(out[r]).kind = "redirect" /\ Last(out[r]).to = VideoUrl(1)
        /\ user_id[2] = cookie[r] /\ Len(updates[2]) >= 2
        /\ \A k \in 1..Len(out[r]) : out[r][k].status # "downloading"

\* C8: the pubsubs subscribed to a topic are those of the streams with that
\* cookie that are in their loop or about to run their finally clause: a
\* stream that has ended is subscribed to nothing.
C8_SubscriptionRemoved ==
    \A c \in Cookies : \A r \in subscribers[c] :
        cookie[r] = c /\ rpc[r] \in {"listen", "finally"}

\* A stream that forwarded an update has ended after its client disconnected.
C8_Witness ==
    \E r \in Relays :
        /\ rpc[r] = "done" /\ disconnected[r]
        /\ \E k \in 1..Len(out[r]) : out[r][k].kind = "status"

\* C9: every job a status stream lists in its snapshot has published complete
\* by the time the snapshot is taken.
C9_SnapshotListsCompleted ==
    [][\A r \in Relays :
          (rpc[r] = "idle" /\ rpc'[r] = "subscribe") =>
              Last(out'[r]).items \subseteq {j \in Jobs : jpc[j] = "complete"}]_vars

(* ------------------------ several streams of one user ---------------- *)

IsForward(e) == e.kind \in {"status", "done"}

\* What the stream sends for a pubsub message: app.py:83-96.
Fragment(data) == IF data.status = "complete" THEN Sse("done") ELSE StatusFragment(data)

Fragments(s) == [k \in 1..Len(s) |-> Fragment(s[k])]

Payloads(s) == [k \in 1..Len(s) |-> s[k].data]

IsMessage(m) == m.type = "message"

\* The events relay r has got since it subscribed: those it has forwarded
\* followed by those still waiting in its pubsub.
Seen(r) == SelectSeq(out[r], IsForward) \o Fragments(Payloads(SelectSeq(inbox[r], IsMessage)))

LastN(s, n) == SubSeq(s, Len(s) - n + 1, Len(s))

Subscribed(r) == r \in subscribers[cookie[r]]

C12_NoBacklogReplay ==
    [][/\ \A r \in Relays :
            /\ (~Subscribed(r) /\ Subscribed(r)') => inbox'[r] = <<SubscribeAck>>
            /\ (~Subscribed(r) /\ ~Subscribed(r)') => inbox'[r] = <<>>
            /\ Len(inbox'[r]) > Len(inbox[r]) /\ Subscribed(r)
                => \E j \in Jobs :
                      /\ user_id[j] = cookie[r]
                      /\ updates'[j] = Append(updates[j], Last(inbox'[r]).data)
                      /\ inbox'[r] = Append(inbox[r], Message(Last(updates'[j])))
            /\ Len(out'[r]) > Len(out[r]) /\ IsForward(Last(out'[r]))
                => /\ Subscribed(r)
                   /\ inbox[r] # <<>>
                   /\ IsMessage(Head(inbox[r]))
                   /\ out'[r] = Append(out[r], Fragment(Head(inbox[r]).data))
       /\ \A j \in Jobs :
            (updates'[j] # updates[j] /\ subscribers[user_id[j]] = {})
            => /\ inbox' = inbox
               /\ jpc'[j] # jpc[j] \/ index'[j] # index[j]]_vars

\* A stream opened and subscribed after a job of its cookie had published
\* all its events, complete included: it has sent the snapshot and nothing
\* else, and nothing waits in its pubsub.
C12_Witness ==
    /\ \E j \in Jobs : /\ jpc[j] = "complete" /\ user_id[j] = "u1"
                        /\ Len(updates[j]) >= 7
    /\ NoJobRunning
    /\ cookie[1] = "u1" /\ rpc[1] = "listen" /\ Subscribed(1)
    /\ inbox[1] = <<>>
    /\ Len(out[1]) = 1

(* ------------------------ the page file ----------------------------- *)

\* C13: whoever reads video.html while build_page runs finds it absent or
\* holding the whole text of a finished render, never empty or partly
\* written: the file itself is never in such a state, GET /v/<folder_id>
\* never returns such a content, and it returns the page only once the
\* rename has been done.
C13_PageAbsentOrFull ==
    \A j \in Jobs :
        /\ page[j] \in {"absent", "written"}
        /\ response[j] \in {"none", "is_file", "folder not found",
                            "video.html not found", "written"}
        /\ response[j] \in {"is_file", "written"}
           => /\ page[j] = "written"
              /\ tmp[j] = "absent"
              /\ \E k \in 1..Len(ran[j]) : ran[j][k].stage = "build_page"
              /\ jpc[j] \in {"unlink", "complete", "error"}

\* The page was requested while the temporary file was half written.
C13_Witness ==
    /\ jpc[1] = "write_text"
    /\ tmp[1] = "partial"
    /\ response[1] = "video.html not found"

(* ------------------------ the groups of the page --------------------- *)

\* C14: once the loop of build_page has gone through the frame records, the
\* page holds a group for exactly the records with at least 2 clusters: a
\* record with fewer clusters has no group, a record with at least 2 has one.
C14_GroupsOnlyForTwoClusters ==
    Len(frames_list) = Len(frames)
    => Len(frames_list) = Cardinality({k \in 1..Len(frames) : frames[k] >= 2})

(* ------------------------ termination -------------------------------- *)

\* C15: every job that was posted ends: it reaches complete or error and its
\* last update is that terminal event.
C15_EveryJobEnds ==
    \A j \in Jobs :
        (jpc[j] # "idle")
        ~> (/\ jpc[j] \in {"complete", "error"}
            /\ updates[j] # <<>>
            /\ Last(updates[j]).status = jpc[j])

\* One job has ended with complete after two frames, the other with error.
C15_Witness ==
    /\ jpc[1] = "complete" /\ frame_files[1] = 2 /\ Last(updates[1]).status = "complete"
    /\ jpc[2] = "error" /\ Last(updates[2]).status = "error"

(* ------------------------ the store ---------------------------------- *)

\* C16: the store of a job never holds more than one details record, and
\* once the job has published complete it holds exactly one details record
\* and one frame record per frame file, appended in the order of the frame
\* indices: frame_00, frame_01, ...
C16_StoreRecords ==
    \A j \in Jobs :
        /\ db_details[j] <= 1
        /\ (\E k \in 1..Len(updates[j]) : updates[j][k].status = "complete")
           => /\ db_details[j] = 1
              /\ frame_files[j] >= 1
              /\ db_frames[j] = [k \in 1..frame_files[j] |-> k - 1]

\* A job of two frames has published complete.
C16_Witness ==
    \E j \in Jobs :
        /\ jpc[j] = "complete"
        /\ Last(updates[j]).status = "complete"
        /\ frame_files[j] = 2
        /\ Len(db_frames[j]) = 2

(* ------------------------ the percentages ---------------------------- *)

Leaves(r) == rpc'[r] # rpc[r] /\ rpc'[r] \in {"finally", "done"}

\* C18: a stream that disconnects or ends stops its own listener only.  The
\* step in which it leaves its loop, and the step of its finally clause,
\* change nothing of any job (state, store, folder, files, updates) and
\* nothing of another stream (its subscription, its pubsub, what it has
\* sent); and with a stream gone the job's updates still are the sequence
\* of a run, in order, up to where the job stands.
C18_LeavingStopsOnlyItself ==
    /\ [][\A r \in Relays :
             Leaves(r)
             => /\ UNCHANGED jobvars
                /\ UNCHANGED tmp
                /\ \A q \in Relays \ {r} :
                      /\ rpc'[q] = rpc[q]
                      /\ inbox'[q] = inbox[q]
                      /\ out'[q] = out[q]
                      /\ \A c \in Cookies :
                            q \in subscribers'[c] <=> q \in subscribers[c]]_vars
    /\ []((\E r \in Relays : rpc[r] = "done")
           => LET body == BeforeError(2)
                  n == frame_files[2]
              IN  /\ Len(body) <= n + 6
                  /\ \A k \in 1..Len(body) : body[k].status = StatusOrder(n)[k]
                  /\ jpc[2] = "complete" => Len(updates[2]) = n + 6)

\* The first stream was closed by its client while the job was running: it
\* had sent a status fragment and never sent Done.  The job went on to
\* complete over two frames and the second stream, of the same user, is
\* still subscribed and has got complete.
C18_Witness ==
    /\ rpc[1] = "done" /\ disconnected[1] /\ cookie[1] = "u1"
    /\ \E k \in 1..Len(out[1]) : out[1][k].kind = "status"
    /\ \A k \in 1..Len(out[1]) : out[1][k].kind # "done"
    /\ jpc[2] = "complete" /\ user_id[2] = "u1" /\ frame_files[2] = 2
    /\ cookie[2] = "u1" /\ Subscribed(2)
    /\ \E k \in 1..Len(out[2]) : out[2][k].kind = "done"

(* ------------------------ the progress of the analysis --------------- *)

\* The updates of job j that report an analysed frame.
PerFrame(j) == {k \in 1..Len(updates[j]) : updates[j][k].index >= 1}

\* C19: the update for frame i of N carries min(50 + floor(40 * i / N), 90),
\* the floor being the f with f * N <= 40 * i < (f + 1) * N; so it lies in
\* 40..90, does not decrease from one frame to the next and is 90 for the
\* last frame.
C19_AnalyzeProgress ==
    \A j \in Jobs : \A k \in PerFrame(j) :
        LET e == updates[j][k]
            i == e.index
            N == e.total
        IN  /\ N = frame_files[j] /\ i \in 1..N
            /\ \E f \in 0..40 :
                  /\ f * N <= 40 * i /\ 40 * i < (f + 1) * N
                  /\ e.progress = IF 50 + f < 90 THEN 50 + f ELSE 90
            /\ e.progress \in 40..90
            /\ i = N => e.progress = 90
            /\ \A m \in PerFrame(j) :
                  updates[j][m].index <= i => updates[j][m].progress <= e.progress

\* A job of three frames has got through: its frames reported 63, 76 and 90.
C19_Witness ==
    /\ jpc[1] = "complete" /\ frame_files[1] = 3
    /\ {updates[1][k].progress : k \in PerFrame(1)} = {63, 76, 90}

(* ------------------------ the snapshot ------------------------------- *)

\* C20: however many job folders there are, none included, a status stream
\* that has been opened has sent exactly one snapshot, as its first event:
\* before it subscribed and before any status fragment.
C20_OneSnapshotFirst ==
    \A r \in Relays :
        rpc[r] # "idle"
        => /\ out[r] # <<>>
           /\ \A k \in 1..Len(out[r]) : out[r][k].kind = "gallery" <=> k = 1

====
